---- MODULE Spec2Model ----
(***************************************************************************)
(* Highlightr: region selection, erase and apply of <mark> highlights.     *)
(* Text is a sequence of one-character strings; a document is one flat     *)
(* sequence in which "\n" separates the lines.  Columns, lines and string  *)
(* indexes are 0-based as in the TypeScript source.                        *)
(***************************************************************************)
EXTENDS Integers, Sequences, FiniteSets, TLC

VARIABLES doc, selFrom, selTo, useTogglingBehavior, highlighterMethods, hist

vars == <<doc, selFrom, selTo, useTogglingBehavior, highlighterMethods, hist>>

\* Bounds of the model.
MaxPieces == 2
MaxSteps == 2

----------------------------------------------------------------------------
\* JavaScript string primitives

Min(S) == CHOOSE x \in S : \A y \in S : x <= y
Max(S) == CHOOSE x \in S : \A y \in S : x >= y

\* s.slice(a, b) for 0 <= a, b
Slice(s, a, b) ==
    LET lo == IF a < 0 THEN 0 ELSE a
        hi == IF b > Len(s) THEN Len(s) ELSE b
    IN IF hi <= lo THEN << >> ELSE SubSeq(s, lo + 1, hi)

\* s[i]
At(s, i) == s[i + 1]

StartsWithAt(s, pat, i) ==
    /\ i >= 0
    /\ i + Len(pat) <= Len(s)
    /\ \A k \in 1..Len(pat) : s[i + k] = pat[k]

\* s.indexOf(pat, start)
IndexOf(s, pat, start) ==
    LET cands == {i \in start..(Len(s) - Len(pat)) : StartsWithAt(s, pat, i)}
    IN IF cands = {} THEN -1 ELSE Min(cands)

Whitespace == {" ", "\n", "\t"}

RECURSIVE trimStart(_)
trimStart(s) ==
    IF s # << >> /\ Head(s) \in Whitespace THEN trimStart(Tail(s)) ELSE s

RECURSIVE trimEnd(_)
trimEnd(s) ==
    IF s # << >> /\ s[Len(s)] \in Whitespace
    THEN trimEnd(SubSeq(s, 1, Len(s) - 1)) ELSE s

\* s.slice(-1)
SliceLast(s) == IF s = << >> THEN << >> ELSE <<s[Len(s)]>>

\* s.split("\n")
NewlinesIn(s) == {i \in 1..Len(s) : s[i] = "\n"}

RECURSIVE split(_)
split(s) ==
    IF NewlinesIn(s) = {} THEN <<s>>
    ELSE LET i == Min(NewlinesIn(s))
         IN <<SubSeq(s, 1, i - 1)>> \o split(SubSeq(s, i + 1, Len(s)))

----------------------------------------------------------------------------
\* Markup

OpenMark == <<"<", "m", "a", "r", "k">>
CloseMark == <<"<", "/", "m", "a", "r", "k", ">">>
MarkStyle == OpenMark \o <<" ", "s", "t", "y", "l", "e">>
MarkClass == OpenMark \o <<" ", "c", "l", "a", "s", "s">>

HighlighterKeys == {"a"}
\* settings.highlighters[key]
Color(key) == <<"r", "e", "d">>

PrefixOf(method, key) ==
    IF method = "css-classes"
    THEN OpenMark \o <<" ", "c", "l", "a", "s", "s", "=", "\"", "h", "l", "t", "r", "-">>
            \o <<key>> \o <<"\"", ">">>
    ELSE OpenMark \o <<" ", "s", "t", "y", "l", "e", "=", "\"", "b", "a", "c", "k",
                       "g", "r", "o", "u", "n", "d", ":", " ">>
            \o Color(key) \o <<";", "\"", ">">>

\* commandsMap.highlight
CommandOf(method, key) ==
    [line |-> 0, prefix |-> PrefixOf(method, key), suffix |-> CloseMark]

\* /\<mark style.*?[^\>]\>/ and /\<mark class.*?[^\>]\>/ anchored at index i:
\* the index just past the match, or -1.  "." matches no line terminator,
\* [^>] matches any character but ">"; the lazy quantifier takes the first fit.
MatchOpenTagAt(s, head, i) ==
    IF ~StartsWithAt(s, head, i) THEN -1
    ELSE LET b == i + Len(head)
             fits == {j \in b..(Len(s) - 2) :
                         /\ At(s, j) # ">"
                         /\ At(s, j + 1) = ">"
                         /\ \A k \in b..(j - 1) : At(s, k) # "\n"}
         IN IF fits = {} THEN -1 ELSE Min(fits) + 2

MatchLiteralAt(s, pat, i) == IF StartsWithAt(s, pat, i) THEN i + Len(pat) ELSE -1

\* s.replace(re, "") with the g flag, re given by its anchored matcher
RECURSIVE ReplaceAllFrom(_, _, _, _)
ReplaceAllFrom(s, kind, head, i) ==
    IF i >= Len(s) THEN << >>
    ELSE LET e == IF kind = "open" THEN MatchOpenTagAt(s, head, i)
                  ELSE MatchLiteralAt(s, head, i)
         IN IF e # -1 THEN ReplaceAllFrom(s, kind, head, e)
            ELSE <<At(s, i)>> \o ReplaceAllFrom(s, kind, head, i + 1)

StripMarks(s) ==
    LET s1 == ReplaceAllFrom(s, "open", MarkStyle, 0)
        s2 == ReplaceAllFrom(s1, "open", MarkClass, 0)
    IN ReplaceAllFrom(s2, "lit", CloseMark, 0)

Lower(c) ==
    CASE c = "M" -> "m" [] c = "A" -> "a" [] c = "R" -> "r" [] c = "K" -> "k"
      [] OTHER -> c

\* \w
WordChars == {"a", "b", "c", "d", "e", "f", "g", "h", "i", "j", "k", "l", "m",
              "n", "o", "p", "q", "r", "s", "t", "u", "v", "w", "x", "y", "z",
              "A", "B", "C", "D", "E", "F", "G", "H", "I", "J", "K", "L", "M",
              "N", "O", "P", "Q", "R", "S", "T", "U", "V", "W", "X", "Y", "Z",
              "0", "1", "2", "3", "4", "5", "6", "7", "8", "9", "_"}

\* /<mark\b[^>]*>/i.test(s)
HasOpenMark(s) ==
    \E i \in 0..(Len(s) - 6) :
        /\ \A k \in 1..5 : Lower(s[i + k]) = OpenMark[k]
        /\ At(s, i + 5) \notin WordChars
        /\ \E j \in (i + 5)..(Len(s) - 1) : At(s, j) = ">"

----------------------------------------------------------------------------
\* The host editor (obsidian Editor): positions are {line, ch}; every
\* position it is given is clipped into the document.

Pos(l, c) == [line |-> l, ch |-> c]

LineCount(d) == Cardinality(NewlinesIn(d)) + 1

\* offset of the first character of line n, 0 <= n < LineCount(d)
LineStart(d, n) ==
    IF n = 0 THEN 0
    ELSE CHOOSE i \in NewlinesIn(d) : Cardinality({j \in NewlinesIn(d) : j <= i}) = n

LineEnd(d, n) ==
    IF n = LineCount(d) - 1 THEN Len(d) ELSE LineStart(d, n + 1) - 1

getLine(d, n) == Slice(d, LineStart(d, n), LineEnd(d, n))

Clip(c, len) == IF c < 0 THEN 0 ELSE IF c > len THEN len ELSE c

posToOffset(d, p) ==
    IF p.line < 0 THEN 0
    ELSE IF p.line >= LineCount(d) THEN Len(d)
    ELSE LineStart(d, p.line)
            + Clip(p.ch, LineEnd(d, p.line) - LineStart(d, p.line))

LineOfOffset(d, o) == Cardinality({j \in NewlinesIn(d) : j <= o})

offsetToPos(d, o) == Pos(LineOfOffset(d, o), o - LineStart(d, LineOfOffset(d, o)))

Editor(d, f, t) == [doc |-> d, from |-> f, to |-> t]

\* the selection between two offsets, whichever comes first
Range(d, x, y) == IF x <= y THEN Editor(d, x, y) ELSE Editor(d, y, x)

getSelection(ed) == Slice(ed.doc, ed.from, ed.to)
\* getCursor() is read by the source only while the selection is empty
getCursor(ed) == offsetToPos(ed.doc, ed.to)
getCursorFrom(ed) == offsetToPos(ed.doc, ed.from)
getCursorTo(ed) == offsetToPos(ed.doc, ed.to)

getRange(ed, a, b) == Slice(ed.doc, posToOffset(ed.doc, a), posToOffset(ed.doc, b))

setSelection(ed, a, b) == Range(ed.doc, posToOffset(ed.doc, a), posToOffset(ed.doc, b))

setCursor(ed, p) == Range(ed.doc, posToOffset(ed.doc, p), posToOffset(ed.doc, p))

\* a position of the old document carried through the replacement of [x, y)
\* by n characters
MapOffset(o, x, y, n) ==
    IF o <= x THEN o ELSE IF o >= y THEN o - (y - x) + n ELSE x + n

ReplaceOffsets(ed, text, x, y) ==
    Range(Slice(ed.doc, 0, x) \o text \o Slice(ed.doc, y, Len(ed.doc)),
          MapOffset(ed.from, x, y, Len(text)),
          MapOffset(ed.to, x, y, Len(text)))

\* the source calls it with a <= b only
replaceRange(ed, text, a, b) ==
    ReplaceOffsets(ed, text, posToOffset(ed.doc, a), posToOffset(ed.doc, b))

\* the caret is left after the inserted text
replaceSelection(ed, text) ==
    Editor(Slice(ed.doc, 0, ed.from) \o text \o Slice(ed.doc, ed.to, Len(ed.doc)),
           ed.from + Len(text), ed.from + Len(text))

\* a position handed to the host lies inside the document it is handed to
InDocument(d, p) ==
    /\ p.line >= 0 /\ p.line < LineCount(d)
    /\ p.ch >= 0 /\ p.ch <= LineEnd(d, p.line) - LineStart(d, p.line)

\* one position handed to the host by a call of its API
Call(api, d, p) == [api |-> api, pos |-> p, ok |-> InDocument(d, p)]

----------------------------------------------------------------------------
\* src/utils/selectRegion.ts
\* A function of the source is split where it binds a value it uses again:
\* the value is handed on as a parameter of the operator for the lines below.

\* ScanMarks with the closing column left out of the region
RECURSIVE ScanMarksHalfOpen(_, _, _)
ScanMarksHalfOpen(lineText, ch, searchPos) ==
    LET openIdx == IndexOf(lineText, OpenMark, searchPos)
        closeIdxRaw == IndexOf(lineText, CloseMark, openIdx)
        closeIdx == closeIdxRaw + Len(CloseMark)
    IN IF openIdx = -1 THEN <<-1, -1>>
       ELSE IF closeIdxRaw = -1 THEN <<-1, -1>>
       ELSE IF ch >= openIdx /\ ch < closeIdx THEN <<openIdx, closeIdx>>
       ELSE ScanMarksHalfOpen(lineText, ch, closeIdx)

\* the while (true) loop of selectMarkRegionIfInside: <<markStart, markEnd>>
RECURSIVE ScanMarks(_, _, _)
ScanMarks(lineText, ch, searchPos) ==
    LET openIdx == IndexOf(lineText, OpenMark, searchPos)
        closeIdxRaw == IndexOf(lineText, CloseMark, openIdx)
        closeIdx == closeIdxRaw + Len(CloseMark)
    IN IF openIdx = -1 THEN <<-1, -1>>
       ELSE IF closeIdxRaw = -1 THEN <<-1, -1>>
       ELSE IF ch >= openIdx /\ ch <= closeIdx THEN <<openIdx, closeIdx>>
       ELSE ScanMarks(lineText, ch, closeIdx)

\* lines 71-74
MarkRegionResult(ed1, markSelectionMade, calls) ==
    [ed |-> ed1,
     selection |-> getSelection(ed1),
     markSelectionMade |-> markSelectionMade,
     from |-> getCursorFrom(ed1),
     to |-> getCursorTo(ed1),
     calls |-> calls]

\* lines 57-68
MarkRegionSelect(ed, makeSelection, line, mark) ==
    IF mark[1] # -1 /\ mark[2] # -1
    THEN IF makeSelection
         THEN MarkRegionResult(
                  setSelection(ed, Pos(line, mark[1]), Pos(line, mark[2])), TRUE,
                  <<Call("setSelection", ed.doc, Pos(line, mark[1])),
                    Call("setSelection", ed.doc, Pos(line, mark[2]))>>)
         ELSE MarkRegionResult(ed, TRUE, << >>)
    ELSE MarkRegionResult(ed, FALSE, << >>)

\* lines 28-55
MarkRegionScan(ed, makeSelection, cursor) ==
    MarkRegionSelect(ed, makeSelection, cursor.line,
                     IF getSelection(ed) = << >>
                     THEN ScanMarks(getLine(ed.doc, cursor.line), cursor.ch, 0)
                     ELSE <<-1, -1>>)

selectMarkRegionIfInside(ed, makeSelection) ==
    MarkRegionScan(ed, makeSelection, getCursor(ed))

\* WordStart that never reaches column 0
RECURSIVE WordStartShort(_, _)
WordStartShort(lineText, startCh) ==
    IF startCh > 1 /\ At(lineText, startCh - 1) # " "
    THEN WordStartShort(lineText, startCh - 1) ELSE startCh

RECURSIVE WordStart(_, _)
WordStart(lineText, startCh) ==
    IF startCh > 0 /\ At(lineText, startCh - 1) # " "
    THEN WordStart(lineText, startCh - 1) ELSE startCh

RECURSIVE WordEnd(_, _)
WordEnd(lineText, endCh) ==
    IF endCh < Len(lineText) /\ At(lineText, endCh) # " "
    THEN WordEnd(lineText, endCh + 1) ELSE endCh

\* lines 120-127
WordSelectionResult(ed1, wordSelected, calls) ==
    [ed |-> ed1,
     selection |-> getSelection(ed1),
     wordSelected |-> wordSelected,
     from |-> getCursorFrom(ed1),
     to |-> getCursorTo(ed1),
     calls |-> calls]

\* lines 115-121
WordSelect(ed, line, startCh, endCh) ==
    WordSelectionResult(
        setSelection(ed, Pos(line, startCh), Pos(line, endCh)), TRUE,
        <<Call("setSelection", ed.doc, Pos(line, startCh)),
          Call("setSelection", ed.doc, Pos(line, endCh))>>)

\* lines 98-113
WordExpand(ed, cursor, lineText) ==
    WordSelect(ed, cursor.line,
               WordStart(lineText, cursor.ch), WordEnd(lineText, cursor.ch))

selectWordIfNone(ed) ==
    IF getSelection(ed) = << >>
    THEN WordExpand(ed, getCursor(ed), getLine(ed.doc, getCursor(ed).line))
    ELSE WordSelectionResult(ed, FALSE, << >>)

----------------------------------------------------------------------------
\* main.ts

NoPos == Pos(-1, -1)

\* EraseNewTo that adds the whole length to the column, line breaks or not
EraseNewToOneLine(from, newStr) == Pos(from.line, from.ch + Len(newStr))

\* EraseNewTo, lines 94-105, of the lines split at line 92
EraseNewToOf(from, lines) ==
    IF Len(lines) = 1
    THEN Pos(from.line, from.ch + Len(lines[1]))
    ELSE Pos(from.line + (Len(lines) - 1), Len(lines[Len(lines)]))

\* eraseHighlight, lines 92-105: where the stripped text ends
EraseNewTo(from, newStr) == EraseNewToOf(from, split(newStr))

\* EraseReselect without the collapse of an auto-selection
EraseReselectKeep(ed2, select, markSelectionMade, from, newTo) ==
    IF select
    THEN IF ~markSelectionMade
         THEN setSelection(ed2, from, newTo)
         ELSE setCursor(ed2, newTo)
    ELSE ed2

\* eraseHighlight, lines 91 and 107-118: the selection left behind
EraseReselect(ed2, select, markSelectionMade, from, newTo) ==
    IF select
    THEN IF ~markSelectionMade
         THEN setSelection(ed2, from, newTo)
         ELSE setCursor(ed2, newTo)
    ELSE IF markSelectionMade THEN setCursor(ed2, from)
    ELSE ed2

\* the positions eraseHighlight hands to the editor at lines 107-118
EraseReselectCalls(d2, select, markSelectionMade, from, newTo) ==
    IF select
    THEN IF ~markSelectionMade
         THEN <<Call("setSelection", d2, from), Call("setSelection", d2, newTo)>>
         ELSE <<Call("setCursor", d2, newTo)>>
    ELSE IF markSelectionMade THEN <<Call("setCursor", d2, from)>>
    ELSE << >>

\* eraseHighlight, lines 91-120
EraseFinish(r, newStr, ed2, select, newTo) ==
    [ed |-> EraseReselect(ed2, select, r.markSelectionMade, r.from, newTo),
     path |-> "erase",
     sel |-> [text |-> r.selection, from |-> r.from, to |-> r.to,
              auto |-> r.markSelectionMade],
     newStr |-> newStr,
     newTo |-> IF select THEN newTo ELSE NoPos,
     calls |-> r.calls
               \o <<Call("getRange", r.ed.doc, r.from), Call("getRange", r.ed.doc, r.to),
                    Call("replaceRange", r.ed.doc, r.from),
                    Call("replaceRange", r.ed.doc, r.to)>>
               \o EraseReselectCalls(ed2.doc, select, r.markSelectionMade, r.from, newTo)]

\* eraseHighlight, lines 89-91
EraseReplace(r, newStr, toggling) ==
    EraseFinish(r, newStr, replaceRange(r.ed, newStr, r.from, r.to),
                toggling /\ Len(newStr) > 0, EraseNewTo(r.from, newStr))

\* eraseHighlight, lines 83-87
EraseStrip(r, toggling) ==
    EraseReplace(r, StripMarks(getRange(r.ed, r.from, r.to)), toggling)

eraseHighlight(ed, toggling) == EraseStrip(selectMarkRegionIfInside(ed, TRUE), toggling)

\* what applyCommand did: the editor it leaves, the branch taken, the text
\* written, the last position computed and the positions handed over
Applied(ed3, path, newStr, newTo, calls) ==
    [ed |-> ed3, path |-> path, newStr |-> newStr, newTo |-> newTo, calls |-> calls]

\* applyCommand, lines 215-231, toggling being false at line 215
InsertCaret(ed2, text, caret) ==
    Applied(setCursor(ed2, caret), "insert", text, caret,
            <<Call("setCursor", ed2.doc, caret)>>)

\* applyCommand, lines 215-231, toggling being true at line 215
InsertSelect(ed2, text, newFrom, newTo, caret) ==
    Applied(setCursor(setSelection(ed2, newFrom, newTo), caret), "insert", text, caret,
            <<Call("setSelection", ed2.doc, newFrom),
              Call("setSelection", ed2.doc, newTo),
              Call("setCursor", ed2.doc, caret)>>)

\* applyCommand, lines 213-231: the plain insertion and its caret
ApplyInsert(w, toggling, command, prefix, suffix, cursorPos) ==
    IF toggling
    THEN InsertSelect(replaceSelection(w.ed, prefix \o w.selection \o suffix),
                      prefix \o w.selection \o suffix,
                      Pos(w.from.line + command.line, w.from.ch),
                      Pos(w.from.line + command.line,
                          w.from.ch + Len(prefix) + Len(w.selection) + Len(suffix)),
                      Pos(w.from.line + command.line * 1, w.to.ch + cursorPos * 1))
    ELSE InsertCaret(replaceSelection(w.ed, prefix \o w.selection \o suffix),
                     prefix \o w.selection \o suffix,
                     Pos(w.from.line + command.line * 1, w.to.ch + cursorPos * 1))

\* applyCommand, lines 143-147 and 155-163
ToggleSelect(ed2, path, text, curserStart, newTo) ==
    Applied(setSelection(ed2, curserStart, newTo), path, text, newTo,
            <<Call("setSelection", ed2.doc, curserStart),
              Call("setSelection", ed2.doc, newTo)>>)

\* applyCommand, lines 166-167
ToggleCaret(ed2, text, caret) ==
    Applied(setCursor(ed2, caret), "toggle-insert", text, caret,
            <<Call("setCursor", ed2.doc, caret)>>)

\* applyCommand, lines 135-148
ToggleErase(w, newStr) ==
    ToggleSelect(replaceSelection(w.ed, newStr), "toggle-erase", newStr, w.from,
                 Pos(w.from.line, w.from.ch + Len(newStr)))

\* applyCommand, lines 151-169
ToggleInsert(w, prefix, suffix, ed2) ==
    IF w.selection # << >> /\ Len(w.selection) > 0 /\ ~w.wordSelected
    THEN ToggleSelect(ed2, "toggle-insert", prefix \o w.selection \o suffix, w.from,
                      Pos(w.from.line,
                          w.from.ch + Len(prefix) + Len(w.selection) + Len(suffix)))
    ELSE ToggleCaret(ed2, prefix \o w.selection \o suffix,
                     Pos(w.from.line, w.from.ch + Len(prefix)))

\* applyCommand, lines 132-171: the branch taken when toggling is enabled
ApplyToggling(w, prefix, suffix) ==
    IF w.selection # << >> /\ HasOpenMark(w.selection)
    THEN ToggleErase(w, StripMarks(w.selection))
    ELSE ToggleInsert(w, prefix, suffix,
                      replaceSelection(w.ed, prefix \o w.selection \o suffix))

\* the fixed column correction of changeCursor
MergeCorrection == 8

\* applyCommand, lines 202-209
MergeReplace(w, command, cursorPos, preStart, sufEnd, ed2, caret) ==
    Applied(setCursor(ed2, caret), "merge", w.selection, caret,
            <<Call("replaceRange", w.ed.doc, preStart),
              Call("replaceRange", w.ed.doc, sufEnd),
              Call("setCursor", ed2.doc, caret)>>)

WithReads(out, reads) == [out EXCEPT !.calls = reads \o @]

\* applyCommand, lines 187-231
MergeTest(w, toggling, command, prefix, suffix, cursorPos, preStart, sufEnd) ==
    WithReads(
        IF /\ getRange(w.ed, w.to, sufEnd) = trimEnd(suffix)
           /\ SliceLast(getRange(w.ed, preStart, w.from)) = SliceLast(trimStart(prefix))
           /\ w.selection # << >>
        THEN MergeReplace(w, command, cursorPos, preStart, sufEnd,
                          replaceRange(w.ed, w.selection, preStart, sufEnd),
                          Pos(w.from.line + command.line * (-1),
                              w.to.ch + (cursorPos * (-1) + MergeCorrection)))
        ELSE ApplyInsert(w, toggling, command, prefix, suffix, cursorPos),
        <<Call("getRange", w.ed.doc, preStart), Call("getRange", w.ed.doc, w.from),
          Call("getRange", w.ed.doc, w.to), Call("getRange", w.ed.doc, sufEnd)>>)

\* applyCommand, lines 173-231: the smart-merge path
ApplyMerging(w, toggling, command, prefix, suffix) ==
    MergeTest(w, toggling, command, prefix, suffix,
              IF Len(w.selection) > 0 THEN Len(prefix) + Len(suffix) + 1
              ELSE Len(prefix),
              Pos(w.from.line - command.line, w.from.ch - Len(prefix)),
              Pos(w.from.line + command.line, w.to.ch + Len(suffix)))

\* applyCommand, after line 127: the located span kept beside the outcome
ApplyResult(w, out) ==
    [ed |-> out.ed,
     path |-> out.path,
     sel |-> [text |-> w.selection, from |-> w.from, to |-> w.to,
              auto |-> w.wordSelected],
     newStr |-> out.newStr,
     newTo |-> out.newTo,
     calls |-> w.calls \o out.calls]

\* applyCommand, lines 129-231
ApplyLocated(w, toggling, command, prefix, suffix) ==
    ApplyResult(w, IF toggling THEN ApplyToggling(w, prefix, suffix)
                   ELSE ApplyMerging(w, toggling, command, prefix, suffix))

applyCommand(ed, toggling, command) ==
    ApplyLocated(selectWordIfNone(ed), toggling, command, command.prefix,
                 IF command.suffix # << >> THEN command.suffix ELSE command.prefix)

----------------------------------------------------------------------------
\* The documents, selections and settings a command can be invoked on

Methods == {"css-classes", "inline-styles"}
OtherMethod(m) == IF m = "css-classes" THEN "inline-styles" ELSE "css-classes"

Pieces(m) == {<<"a", "b">>, <<" ">>, <<"\n">>, PrefixOf(m, "a"), CloseMark}

RECURSIVE PieceDocs(_, _)
PieceDocs(m, n) ==
    IF n = 0 THEN {<< >>}
    ELSE LET shorter == PieceDocs(m, n - 1)
         IN shorter \cup {p \o d : p \in Pieces(m), d \in shorter}

\* abc def ghi
ThreeWords == <<"a", "b", "c", " ", "d", "e", "f", " ", "g", "h", "i">>
\* x <mark ...>hi</mark> y
OneMark(m) ==
    <<"x", " ">> \o PrefixOf(m, "a") \o <<"h", "i">> \o CloseMark \o <<" ", "y">>
\* <mark ...>A</mark><mark ...>B</mark>
AdjacentMarks(m) ==
    PrefixOf(m, "a") \o <<"A">> \o CloseMark \o PrefixOf(m, "a") \o <<"B">>
        \o CloseMark
\* a highlight whose content runs over three lines
ThreeLineMark(m) ==
    <<"x", " ">> \o PrefixOf(m, "a") \o <<"a", "\n", "b", "c", "\n", "d">>
        \o CloseMark \o <<" ", "y">>
\* a highlight made while the other highlighter method was configured
ForeignMark(m) == PrefixOf(OtherMethod(m), "a") \o <<"a", "b">> \o CloseMark

Fixtures(m) ==
    {ThreeWords, OneMark(m), AdjacentMarks(m), ThreeLineMark(m), ForeignMark(m)}

Docs(m) == PieceDocs(m, MaxPieces) \cup Fixtures(m)

\* A caret may stand anywhere; a selection made by the user starts and ends
\* beside a space, a line break or an angle bracket, or at an end of the text.
Delims == {" ", "\n", "<", ">"}

SelPoints(d) ==
    {o \in 0..Len(d) :
        \/ o = 0 \/ o = Len(d)
        \/ d[o] \in Delims
        \/ d[o + 1] \in Delims}

Init ==
    /\ useTogglingBehavior \in BOOLEAN
    /\ highlighterMethods \in Methods
    /\ doc \in Docs(highlighterMethods)
    /\ \/ /\ selFrom \in 0..Len(doc)
          /\ selTo = selFrom
       \/ /\ selFrom \in SelPoints(doc)
          /\ selTo \in {o \in SelPoints(doc) : o > selFrom}
    /\ hist = << >>

Here == Editor(doc, selFrom, selTo)

Record(op, key, out) ==
    [op |-> op,
     key |-> key,
     pre |-> Here,
     path |-> out.path,
     sel |-> out.sel,
     newStr |-> out.newStr,
     newTo |-> out.newTo,
     calls |-> out.calls]

Commit(op, key, out) ==
    /\ doc' = out.ed.doc
    /\ selFrom' = out.ed.from
    /\ selTo' = out.ed.to
    /\ hist' = Append(hist, Record(op, key, out))
    /\ UNCHANGED <<useTogglingBehavior, highlighterMethods>>

\* a highlighter command (id: highlighterKey)
Apply(key) ==
    /\ Len(hist) < MaxSteps
    /\ Commit("apply", key,
              applyCommand(Here, useTogglingBehavior,
                           CommandOf(highlighterMethods, key)))

\* the command "unhighlight"
Erase ==
    /\ Len(hist) < MaxSteps
    /\ Commit("erase", "", eraseHighlight(Here, useTogglingBehavior))

\* the command "highlighter-plugin-menu"
MenuCallback(ed, toggling, r) ==
    IF toggling /\ r.markSelectionMade
    THEN eraseHighlight(ed, toggling)
    ELSE [ed |-> ed, path |-> "menu",
          sel |-> [text |-> r.selection, from |-> r.from, to |-> r.to,
                   auto |-> r.markSelectionMade],
          newStr |-> << >>, newTo |-> NoPos, calls |-> r.calls]

OpenHighlightr ==
    /\ hist = << >>
    /\ Commit("menu", "",
              MenuCallback(Here, useTogglingBehavior,
                           selectMarkRegionIfInside(Here, FALSE)))

\* Highlighting and unhighlighting, command after command
Next ==
    \/ \E key \in HighlighterKeys : Apply(key)
    \/ Erase

Spec == Init /\ [][Next]_vars

\* The locator functions, and the command that probes with one of them,
\* invoked once on an editor state
LocateOut(r, auto) ==
    [ed |-> r.ed, path |-> "locate",
     sel |-> [text |-> r.selection, from |-> r.from, to |-> r.to, auto |-> auto],
     newStr |-> << >>, newTo |-> NoPos, calls |-> r.calls]

LocatedMark(r) == LocateOut(r, r.markSelectionMade)
LocatedWord(r) == LocateOut(r, r.wordSelected)

LocateMarkRegion(makeSelection) ==
    /\ hist = << >>
    /\ Commit(IF makeSelection THEN "locateMark" ELSE "probeMark", "",
              LocatedMark(selectMarkRegionIfInside(Here, makeSelection)))

LocateWord ==
    /\ hist = << >>
    /\ Commit("locateWord", "", LocatedWord(selectWordIfNone(Here)))

NextLocate ==
    \/ \E makeSelection \in BOOLEAN : LocateMarkRegion(makeSelection)
    \/ LocateWord
    \/ OpenHighlightr

SpecLocate == Init /\ [][NextLocate]_vars

----------------------------------------------------------------------------
\* Properties

Last == hist[Len(hist)]

PreSelEmpty(h) == h.pre.from = h.pre.to
PreCursor(h) == offsetToPos(h.pre.doc, h.pre.to)
PreLine(h) == getLine(h.pre.doc, PreCursor(h).line)
PreLineStart(h) == LineStart(h.pre.doc, PreCursor(h).line)

\* the <<open, end>> column pairs of a line: each "<mark" with the first
\* "</mark>" after it, the search resuming after that close
RECURSIVE MarkPairsFrom(_, _)
MarkPairsFrom(L, pos) ==
    LET opens == {i \in pos..Len(L) : StartsWithAt(L, OpenMark, i)}
    IN IF opens = {} THEN {}
       ELSE LET o == Min(opens)
                closes == {i \in o..Len(L) : StartsWithAt(L, CloseMark, i)}
            IN IF closes = {} THEN {}
               ELSE LET e == Min(closes) + Len(CloseMark)
                    IN {<<o, e>>} \cup MarkPairsFrom(L, e)

\* the pairs whose inclusive range holds column ch
Enclosing(L, ch) == {p \in MarkPairsFrom(L, 0) : p[1] <= ch /\ ch <= p[2]}
FirstEnclosing(L, ch) ==
    CHOOSE p \in Enclosing(L, ch) : \A q \in Enclosing(L, ch) : p[1] <= q[1]

\* C4: selectMarkRegionIfInside(editor, true) on an empty selection selects and
\* returns the first scanned <mark ...>...</mark> pair whose inclusive column
\* range holds the cursor, from the "<" of "<mark" to just past "</mark>",
\* with markSelectionMade; with no such pair the selection stays empty and
\* markSelectionMade is false.
C4_MarkRegionContainment ==
    (hist # << >> /\ Last.op = "locateMark" /\ PreSelEmpty(Last)) =>
        LET h == Last
            c == PreCursor(h)
            L == PreLine(h)
            ls == PreLineStart(h)
        IN /\ doc = h.pre.doc
           /\ IF Enclosing(L, c.ch) # {}
              THEN LET p == FirstEnclosing(L, c.ch)
                   IN /\ h.sel.auto
                      /\ h.sel.from = Pos(c.line, p[1])
                      /\ h.sel.to = Pos(c.line, p[2])
                      /\ h.sel.text = Slice(L, p[1], p[2])
                      /\ selFrom = ls + p[1]
                      /\ selTo = ls + p[2]
              ELSE /\ ~h.sel.auto
                   /\ h.sel.text = << >>
                   /\ h.sel.from = c /\ h.sel.to = c
                   /\ selFrom = h.pre.from /\ selTo = h.pre.to
           /\ (h.pre.doc = OneMark("css-classes") /\ c.ch \in 2..32)
                 => (selFrom = 2 /\ selTo = 32)

\* the cursor stood on the boundary of two adjacent highlights and the
\* first of them was selected
C4_Witness ==
    /\ hist # << >> /\ Last.op = "locateMark" /\ PreSelEmpty(Last)
    /\ Last.pre.doc = AdjacentMarks(highlighterMethods)
    /\ Cardinality(Enclosing(PreLine(Last), PreCursor(Last).ch)) = 2
    /\ Last.sel.auto
    /\ selFrom = 0
    /\ selTo = Len(PrefixOf(highlighterMethods, "a")) + 1 + Len(CloseMark)

\* C5: selectMarkRegionIfInside(editor, false) on an empty selection with the
\* cursor inside a mark region returns that region's span (from the "<" of
\* "<mark" to just past "</mark>") with markSelectionMade, and leaves the
\* live selection as it was.
C5_ProbeReturnsRegionSpan ==
    (/\ hist # << >> /\ Last.op = "probeMark" /\ PreSelEmpty(Last)
     /\ Enclosing(PreLine(Last), PreCursor(Last).ch) # {}) =>
        LET h == Last
            c == PreCursor(h)
            p == FirstEnclosing(PreLine(h), c.ch)
        IN /\ h.sel.auto
           /\ h.sel.from = Pos(c.line, p[1])
           /\ h.sel.to = Pos(c.line, p[2])
           /\ doc = h.pre.doc /\ selFrom = h.pre.from /\ selTo = h.pre.to

\* C6: selectWordIfNone returns a non-empty selection unchanged with
\* wordSelected false; on an empty selection it selects the maximal run of
\* characters other than " " around the cursor and returns it with
\* wordSelected true ("abc def ghi" at column 5 gives columns 4 to 7, an
\* empty line gives a zero-length span at column 0).
C6_WordBoundary ==
    (hist # << >> /\ Last.op = "locateWord") =>
        LET h == Last
            c == PreCursor(h)
            L == PreLine(h)
            ls == PreLineStart(h)
            a == selFrom - ls
            b == selTo - ls
        IN /\ doc = h.pre.doc
           /\ h.sel.from = offsetToPos(doc, selFrom)
           /\ h.sel.to = offsetToPos(doc, selTo)
           /\ h.sel.text = Slice(doc, selFrom, selTo)
           /\ IF ~PreSelEmpty(h)
              THEN /\ ~h.sel.auto
                   /\ selFrom = h.pre.from /\ selTo = h.pre.to
              ELSE /\ h.sel.auto
                   /\ 0 <= a /\ a <= c.ch /\ c.ch <= b /\ b <= Len(L)
                   /\ \A k \in a..(b - 1) : At(L, k) # " "
                   /\ a = 0 \/ At(L, a - 1) = " "
                   /\ b = Len(L) \/ At(L, b) = " "
                   /\ h.sel.from = Pos(c.line, a)
                   /\ h.sel.to = Pos(c.line, b)
                   /\ (h.pre.doc = ThreeWords /\ c.ch = 5) => (a = 4 /\ b = 7)
                   /\ L = << >> =>
                         (a = 0 /\ b = 0 /\ h.sel.text = << >>)

\* the word "def" of "abc def ghi" was selected from column 5
C6_Witness ==
    /\ hist # << >> /\ Last.op = "locateWord" /\ PreSelEmpty(Last)
    /\ Last.pre.doc = ThreeWords /\ Last.pre.to = 5
    /\ Last.sel.auto
    /\ Last.sel.text = <<"d", "e", "f">>
    /\ selFrom = 4 /\ selTo = 7

\* C7: an erase with toggling enabled and a non-empty stripped text computes
\* newTo as (from.line, from.ch + length) when the stripped text has no line
\* break and as (from.line + k, length of the last segment) when it has k;
\* a user-made selection then covers exactly [from, newTo], an auto-made one
\* is collapsed to a caret at newTo.
C7_EraseSelectionMath ==
    (/\ hist # << >> /\ Last.op = "erase"
     /\ useTogglingBehavior /\ Last.newStr # << >>) =>
        LET h == Last
            from == h.sel.from
            str == h.newStr
            k == Cardinality(NewlinesIn(str))
            lastLen == IF k = 0 THEN Len(str) ELSE Len(str) - Max(NewlinesIn(str))
            expected == IF k = 0 THEN Pos(from.line, from.ch + Len(str))
                        ELSE Pos(from.line + k, lastLen)
        IN /\ h.newTo = expected
           /\ offsetToPos(doc, selTo) = expected
           /\ IF ~h.sel.auto
              THEN /\ offsetToPos(doc, selFrom) = from
                   /\ Slice(doc, selFrom, selTo) = str
              ELSE selFrom = selTo

\* a user-made selection over a highlight of three lines was erased
C7_Witness ==
    /\ hist # << >> /\ Last.op = "erase" /\ useTogglingBehavior
    /\ ~Last.sel.auto
    /\ Last.sel.text # Last.newStr
    /\ Cardinality(NewlinesIn(Last.newStr)) = 2
    /\ Last.newTo = Pos(Last.sel.from.line + 2, 1)
    /\ selFrom < selTo

\* C10: after an erase whose span selectMarkRegionIfInside selected, the
\* editor holds a caret and no selection: at newTo when toggling is enabled
\* and the stripped text is non-empty, at from otherwise.
C10_AutoSelectionCollapsed ==
    (hist # << >> /\ Last.op = "erase" /\ Last.sel.auto) =>
        LET h == Last
            fromOff == posToOffset(h.pre.doc, h.sel.from)
        IN /\ selFrom = selTo
           /\ IF useTogglingBehavior /\ h.newStr # << >>
              THEN /\ selTo = fromOff + Len(h.newStr)
                   /\ offsetToPos(doc, selTo) = h.newTo
              ELSE /\ selTo = fromOff
                   /\ offsetToPos(doc, selTo) = h.sel.from

\* toggling disabled: an auto-selected highlight with content was erased and
\* a caret stands where it began
C10_Witness ==
    /\ hist # << >> /\ Last.op = "erase" /\ Last.sel.auto
    /\ ~useTogglingBehavior
    /\ Last.newStr # << >>
    /\ Last.sel.text # Last.newStr
    /\ selFrom = selTo
    /\ offsetToPos(doc, selTo) = Last.sel.from

NoMarkTag(s) == IndexOf(s, OpenMark, 0) = -1 /\ IndexOf(s, CloseMark, 0) = -1

\* C1: a highlighter command on a selected text holding no mark tag, followed
\* at once by the unhighlight command, leaves the document as it was before
\* the highlighter command.
C1_RoundTrip ==
    (/\ Len(hist) >= 2
     /\ hist[Len(hist) - 1].op = "apply" /\ Last.op = "erase"
     /\ NoMarkTag(hist[Len(hist) - 1].sel.text)) =>
        doc = hist[Len(hist) - 1].pre.doc

\* C2: with toggling enabled and an empty selection, a highlighter command
\* invoked with the cursor inside a mark region of its line strips that
\* region's tags, and the selection then covers exactly the stripped text.
C2_ToggleEraseInsideMark ==
    (/\ hist # << >> /\ Last.op = "apply" /\ useTogglingBehavior
     /\ PreSelEmpty(Last)
     /\ Enclosing(PreLine(Last), PreCursor(Last).ch) # {}) =>
        LET h == Last
            D == h.pre.doc
            ls == PreLineStart(h)
            p == FirstEnclosing(PreLine(h), PreCursor(h).ch)
            plain == StripMarks(Slice(D, ls + p[1], ls + p[2]))
        IN /\ doc = Slice(D, 0, ls + p[1]) \o plain \o Slice(D, ls + p[2], Len(D))
           /\ selFrom = ls + p[1]
           /\ selTo = ls + p[1] + Len(plain)

\* C3: with toggling disabled, the highlighter command invoked with an empty
\* selection on the boundary of <mark ...>A</mark><mark ...>B</mark> leaves
\* the single highlight <mark ...>AB</mark>.
C3_MergeAdjacent ==
    (/\ hist # << >> /\ Last.op = "apply" /\ ~useTogglingBehavior
     /\ Last.pre.doc = AdjacentMarks(highlighterMethods)
     /\ PreSelEmpty(Last)
     /\ Last.pre.to = Len(PrefixOf(highlighterMethods, Last.key)) + 1
                         + Len(CloseMark)) =>
        doc = PrefixOf(highlighterMethods, Last.key) \o <<"A", "B">> \o CloseMark

\* C8: every position a command hands to the editor lies inside the document:
\* its line exists and its column is within [0, length of that line].
C8_PositionsClamped ==
    \A i \in 1..Len(hist) :
        \A j \in 1..Len(hist[i].calls) : hist[i].calls[j].ok

\* C9: with toggling disabled a highlighter command either replaces the
\* selection by prefix + text + suffix, or deletes a copy of the prefix that
\* ends where the selection starts and a copy of the suffix that starts where
\* it ends; the rest of the document is unchanged.
C9_ApplyFrame ==
    (hist # << >> /\ Last.op = "apply" /\ ~useTogglingBehavior) =>
        LET h == Last
            D == h.pre.doc
            a == posToOffset(D, h.sel.from)
            b == posToOffset(D, h.sel.to)
            text == h.sel.text
            P == PrefixOf(highlighterMethods, h.key)
            S == CloseMark
            inserted ==
                doc = Slice(D, 0, a) \o P \o text \o S \o Slice(D, b, Len(D))
            merged ==
                /\ a >= Len(P)
                /\ Slice(D, a - Len(P), a) = P
                /\ Slice(D, b, b + Len(S)) = S
                /\ doc = Slice(D, 0, a - Len(P)) \o text
                            \o Slice(D, b + Len(S), Len(D))
        IN inserted \/ merged

====
